---- MODULE Spec2Model ----
(***************************************************************************)
(* A model of the Notion MCP server of src/src/client.ts: the NotionClient *)
(* (credential check, sliding-window throttle, request with 429 retry, the *)
(* 13 per-operation methods) and the tool layer of registerTools (lazy     *)
(* client construction, result shaping, errorResult).                      *)
(*                                                                         *)
(* Time is in milliseconds.  A call is one tool invocation; it suspends at *)
(* the throttle's setTimeout, at the fetch and at the 429 backoff's        *)
(* setTimeout, and runs without interruption between those points.         *)
(***************************************************************************)
EXTENDS Integers, Sequences, FiniteSets, TLC

\* ------------------------------------------------------------------ bounds
\* Call slots that may be in flight at the same time.
NumCalls == 2
\* Entries into request() in one behaviour: first attempts and retries.
MaxRequests == 5
\* The clock stops advancing here.
MaxTime == 2000
\* 429 responses the server gives to one call.
Max429 == 2
\* Single milliseconds by which the clock moves inside or between the steps
\* of a request, in one behaviour.
MaxDrift == 1

\* --------------------------------------------------------- program constants
BASE_URL == "https://api.notion.com/v1"
NOTION_VERSION == "2022-06-28"
windowMs == 1000
maxRequests == 3

\* JavaScript's undefined, where it has to be told from a string.
Undefined == "<undefined>"
\* An optional value: <<>> is undefined / null / absent, <<v>> is the value v.
None == <<>>
Some(v) == <<v>>

Calls == 1..NumCalls

VARIABLES
    env,                \* process.env.NOTION_API_KEY
    _client,            \* registerTools' _client: the instance, or not yet constructed
    requestTimestamps,  \* NotionClient.requestTimestamps of that instance
    now,                \* Date.now()
    call,               \* per call slot: where the invocation stands
    admitted,           \* history: every timestamp throttle() has pushed, in order
    requests,           \* history: number of entries into request() so far
    drifted             \* history: single-millisecond clock moves so far

vars == <<env, _client, requestTimestamps, now, call, admitted, requests,
          drifted>>

\* ------------------------------------------------------------ JS primitives
\* Truthiness of an optional string: undefined and "" are falsy.
TruthyStr(o) == o # None /\ o[1] # ""
\* Truthiness of an optional number: undefined and 0 are falsy.
TruthyNum(o) == o # None /\ o[1] # 0
\* Truthiness of an optional object or array: only undefined is falsy.
TruthyObj(o) == o # None

\* obj[k] = v on an object held as a function from keys to values.
Put(obj, k, v) ==
    [x \in (DOMAIN obj) \cup {k} |-> IF x = k THEN v ELSE obj[x]]
\* An assignment that is not guarded: an absent value is stored as null.
PutOrNull(obj, cond, k, o) ==
    Put(obj, k, IF o = None THEN "<null>" ELSE o[1])
\* if (cond) obj[k] = o
PutIf(obj, cond, k, o) == IF cond THEN Put(obj, k, o[1]) ELSE obj
EmptyObject == [x \in {} |-> 0]

\* A JavaScript number that may be NaN.
NaN == [nan |-> TRUE, v |-> 0]
Num(n) == [nan |-> FALSE, v |-> n]
\* The strings the model's servers put in a Retry-After header.
HttpDate == "Wed, 21 Oct 2026 07:28:00 GMT"
RetryAfterValues == {"2", "", HttpDate}
\* Number(str): the decimal strings of the model parse, "" is 0, the rest is NaN.
Number(str) ==
    CASE str = "0" -> Num(0)
      [] str = "1" -> Num(1)
      [] str = "2" -> Num(2)
      [] str = "3" -> Num(3)
      [] str = "" -> Num(0)
      [] OTHER -> NaN
\* a * b on numbers that may be NaN.
Times(a, n) == IF a.nan THEN NaN ELSE Num(a.v * n)
\* The delay setTimeout(f, ms) arms: NaN and anything below 1 become 1 ms.
TimerDelay(ms) == IF ms.nan \/ ms.v < 1 THEN 1 ELSE ms.v
\* Whether the callback of a timer due at wakeAt may run when Date.now() is
\* t: node runs it when its own clock has reached the due time, which
\* Date.now() may show as 1 ms short of it, and at any time after that.
TimerFired(wakeAt, t) == t >= wakeAt - 1

\* A thrown value: an Error with a message, or something that is no Error.
ErrorOf(msg) == [instanceofError |-> TRUE, message |-> msg]
NonError == [instanceofError |-> FALSE, message |-> Undefined]

\* --------------------------------------------------- NotionClient.constructor
ConfigMessage ==
    "NOTION_API_KEY environment variable is not set. " \o
    "Create an integration at https://www.notion.so/my-integrations"
\* A constructor that tests key === undefined and so accepts "".
MissingKeyOnlyUndefined(key) == key = Undefined
\* if (!key) throw: undefined and "" are both rejected.
MissingKey(key) == key = Undefined \/ key = ""
\* _client: null, or a NotionClient.  instance tells the objects `new` has
\* made apart: the n-th one made has instance n.
NoClient == [constructed |-> FALSE, apiKey |-> Undefined, instance |-> 0]
NewClient(key) == [constructed |-> TRUE, apiKey |-> key, instance |-> 1]
\* private requestTimestamps: number[] = []
NewWindow == <<>>

\* ------------------------------------------------------ NotionClient.throttle
\* A filter that keeps the timestamp aged exactly windowMs.
PruneInclusive(ts, t) == SelectSeq(ts, LAMBDA x : t - x <= windowMs)
\* requestTimestamps.filter((ts) => now - ts < windowMs)
Prune(ts, t) == SelectSeq(ts, LAMBDA x : t - x < windowMs)
\* A throttle that lets one request too many through before it waits.
WindowFullOffByOne(ts) == Len(ts) > maxRequests
\* The guard of the wait: requestTimestamps.length >= maxRequests.
WindowFull(ts) == Len(ts) >= maxRequests
\* A wait without the safety margin.
WaitMsNoMargin(t, oldest) == windowMs - (t - oldest)
\* waitMs = windowMs - (now - oldest) + 50
WaitMs(t, oldest) == windowMs - (t - oldest) + 50
\* Whether throttle() suspends, given the pruned window.
MustWait(ts, t) == WindowFull(ts) /\ WaitMs(t, ts[1]) > 0

\* ------------------------------------------------------- NotionClient.request
\* A request() whose retry branch tests for another status.
IsThrottledWrongStatus(status) == status = 492
\* The 429 branch is taken on exactly this status.
IsThrottled(status) == status = 429
\* res.ok
Ok(status) == status >= 200 /\ status <= 299
\* A request() whose default retry delay is 0 rather than 1 second.
RetryWaitSecZeroDefault(retryAfter) ==
    IF TruthyStr(retryAfter) THEN Number(retryAfter[1]) ELSE Num(0)
\* waitSec = retryAfter ? Number(retryAfter) : 1
RetryWaitSec(retryAfter) ==
    IF TruthyStr(retryAfter) THEN Number(retryAfter[1]) ELSE Num(1)
\* A request() that hands the seconds to setTimeout as milliseconds.
BackoffMsUnscaled(retryAfter) == RetryWaitSec(retryAfter)
\* The delay handed to setTimeout in the 429 branch: waitSec * 1000.
BackoffMs(retryAfter) == Times(RetryWaitSec(retryAfter), 1000)
\* A request() that attaches a body to POST alone.
SendsBodyOnlyPost(method, body) == body # None /\ method = "POST"
\* body !== undefined && (method === "POST" || method === "PATCH")
SendsBody(method, body) == body # None /\ method \in {"POST", "PATCH"}
Headers(apiKey) ==
    [Authorization |-> "Bearer " \o apiKey,
     ContentType |-> "application/json",
     NotionVersion |-> NOTION_VERSION]
\* What fetch(url, options) is given.
WireRequest(apiKey, req) ==
    [method |-> req.method,
     url |-> BASE_URL \o req.path,
     headers |-> Headers(apiKey),
     body |-> IF SendsBody(req.method, req.body) THEN req.body ELSE None]
\* An error message that leaves the response body out.
ApiErrorMessageNoBody(status, statusText, errorBody) ==
    "Notion API error (" \o ToString(status) \o " " \o statusText \o ")"
\* `Notion API error (${res.status} ${res.statusText}): ${errorBody}`
ApiErrorMessage(status, statusText, errorBody) ==
    "Notion API error (" \o ToString(status) \o " " \o statusText \o "): "
        \o errorBody

\* ------------------------------------------- NotionClient per-operation methods
\* Each gives the arguments of this.request(method, path, body); a is the
\* record of the method's arguments, the optional ones as None / Some(v).
Req(method, path, body) == [method |-> method, path |-> path, body |-> body]

search(a) ==
    LET b1 == PutIf(EmptyObject, TruthyStr(a.query), "query", a.query)
        b2 == PutIf(b1, TruthyObj(a.filter), "filter", a.filter)
        b3 == PutIf(b2, TruthyObj(a.sort), "sort", a.sort)
        b4 == PutIf(b3, TruthyStr(a.startCursor), "start_cursor", a.startCursor)
        b5 == PutIf(b4, TruthyNum(a.pageSize), "page_size", a.pageSize)
    IN  Req("POST", "/search", Some(b5))

getDatabase(a) == Req("GET", "/databases/" \o a.databaseId, None)

queryDatabase(a) ==
    LET b1 == PutIf(EmptyObject, TruthyObj(a.filter), "filter", a.filter)
        b2 == PutIf(b1, TruthyObj(a.sorts), "sorts", a.sorts)
        b3 == PutIf(b2, TruthyStr(a.startCursor), "start_cursor", a.startCursor)
        b4 == PutIf(b3, TruthyNum(a.pageSize), "page_size", a.pageSize)
    IN  Req("POST", "/databases/" \o a.databaseId \o "/query", Some(b4))

createDatabase(a) ==
    Req("POST", "/databases",
        Some([parent |-> [type |-> "page_id", page_id |-> a.parentPageId],
              title |-> <<[type |-> "text", text |-> [content |-> a.title]]>>,
              properties |-> a.properties]))

createPage(a) ==
    LET parent == Put(Put(EmptyObject, "type", a.parentType),
                      a.parentType, a.parentId)
        b1 == [parent |-> parent, properties |-> a.properties]
        b2 == PutIf(b1, TruthyObj(a.children), "children", a.children)
    IN  Req("POST", "/pages", Some(b2))

getPage(a) == Req("GET", "/pages/" \o a.pageId, None)

\* An updatePage that tests archived for truthiness, as it tests properties.
updatePageTruthyArchived(a) ==
    LET b1 == PutIf(EmptyObject, TruthyObj(a.properties), "properties",
                    a.properties)
        b2 == PutIf(b1, a.archived # None /\ a.archived[1], "archived",
                    a.archived)
    IN  Req("PATCH", "/pages/" \o a.pageId, Some(b2))

updatePage(a) ==
    LET b1 == PutIf(EmptyObject, TruthyObj(a.properties), "properties",
                    a.properties)
        b2 == PutIf(b1, a.archived # None, "archived", a.archived)
    IN  Req("PATCH", "/pages/" \o a.pageId, Some(b2))

getBlock(a) == Req("GET", "/blocks/" \o a.blockId, None)

\* params.join("&"), prefixed by "?" when there is a parameter.
QueryString(a) ==
    LET p1 == IF TruthyStr(a.startCursor)
              THEN <<"start_cursor=" \o a.startCursor[1]>> ELSE <<>>
        p2 == IF TruthyNum(a.pageSize)
              THEN Append(p1, "page_size=" \o ToString(a.pageSize[1])) ELSE p1
    IN  CASE Len(p2) = 0 -> ""
          [] Len(p2) = 1 -> "?" \o p2[1]
          [] OTHER -> "?" \o p2[1] \o "&" \o p2[2]

getBlockChildren(a) ==
    Req("GET", "/blocks/" \o a.blockId \o "/children" \o QueryString(a), None)

\* An appendBlockChildren that posts instead of patching.
appendBlockChildrenAsPost(a) ==
    Req("POST", "/blocks/" \o a.blockId \o "/children",
        Some([children |-> a.children]))

appendBlockChildren(a) ==
    Req("PATCH", "/blocks/" \o a.blockId \o "/children",
        Some([children |-> a.children]))

deleteBlock(a) == Req("DELETE", "/blocks/" \o a.blockId, None)

listUsers(a) == Req("GET", "/users" \o QueryString(a), None)

getUser(a) == Req("GET", "/users/" \o a.userId, None)

\* -------------------------------------------------------------- registerTools
\* A getClient that makes a new client on every invocation.
NeedsConstructionAlways(cl) == TRUE
\* getClient: if (!_client) _client = new NotionClient()
NeedsConstruction(cl) == ~cl.constructed
ListingTools ==
    {"notion_search", "notion_query_database", "notion_get_block_children",
     "notion_list_users"}
MutationTools ==
    {"notion_create_database", "notion_create_page", "notion_update_page",
     "notion_append_block_children", "notion_delete_block"}
ReadTools ==
    {"notion_get_database", "notion_get_page", "notion_get_block",
     "notion_get_user"}
Tools == ListingTools \cup MutationTools \cup ReadTools

\* The client method each handler calls, applied to the handler's arguments.
ToolRequest(tool, a) ==
    CASE tool = "notion_search" -> search(a)
      [] tool = "notion_get_database" -> getDatabase(a)
      [] tool = "notion_query_database" -> queryDatabase(a)
      [] tool = "notion_create_database" -> createDatabase(a)
      [] tool = "notion_create_page" -> createPage(a)
      [] tool = "notion_get_page" -> getPage(a)
      [] tool = "notion_update_page" -> updatePage(a)
      [] tool = "notion_get_block" -> getBlock(a)
      [] tool = "notion_get_block_children" -> getBlockChildren(a)
      [] tool = "notion_append_block_children" -> appendBlockChildren(a)
      [] tool = "notion_delete_block" -> deleteBlock(a)
      [] tool = "notion_list_users" -> listUsers(a)
      [] tool = "notion_get_user" -> getUser(a)

\* ------------------------------------------------------------------- JSON
\* JSON null inside a decoded object, where it has to be told from a string.
Null == "<null>"
\* The response bodies of the model's servers.
BodyListMore ==
    "{\"object\":\"list\",\"results\":[\"r1\",\"r2\"],\"has_more\":true,\"next_cursor\":\"c1\"}"
BodyListEnd ==
    "{\"object\":\"list\",\"results\":[],\"has_more\":false,\"next_cursor\":null}"
BodyObject == "{\"object\":\"block\",\"id\":\"id1\",\"archived\":true}"
BodyNull == "null"
BodyHtml == "<html>502 Bad Gateway</html>"
BodyNotFound == "not_found"

\* A decoded JSON value: null or an object (a function from keys to values).
JsonNull == [isNull |-> TRUE, obj |-> EmptyObject]
JsonObj(o) == [isNull |-> FALSE, obj |-> o]
\* res.json(): the decoded value, or a SyntaxError for text that is no JSON.
JsonParse(text) ==
    CASE text = BodyListMore ->
            [ok |-> TRUE,
             value |-> JsonObj([object |-> "list", results |-> <<"r1", "r2">>,
                                has_more |-> TRUE, next_cursor |-> "c1"])]
      [] text = BodyListEnd ->
            [ok |-> TRUE,
             value |-> JsonObj([object |-> "list", results |-> <<>>,
                                has_more |-> FALSE, next_cursor |-> Null])]
      [] text = BodyObject ->
            [ok |-> TRUE,
             value |-> JsonObj([object |-> "block", id |-> "id1",
                                archived |-> TRUE])]
      [] text = BodyNull -> [ok |-> TRUE, value |-> JsonNull]
      [] OTHER -> [ok |-> FALSE, value |-> JsonNull]
\* The message of the SyntaxError res.json() rejects with (V8 of node 20).
SyntaxErrorMessage(text) ==
    CASE text = BodyHtml ->
            "Unexpected token '<', \"<html>502 \"... is not valid JSON"
      [] text = BodyNotFound ->
            "Unexpected token 'o', \"not_found\" is not valid JSON"
      [] text = "" -> "Unexpected end of JSON input"

\* result.key: None when the key is absent (undefined).
Get(v, k) == IF k \in DOMAIN v.obj THEN Some(v.obj[k]) ELSE None
\* JSON.stringify of an object literal, given as <<key, optional value>> pairs:
\* a key whose value is undefined is left out.  The text is held as the value
\* it encodes.
JsonStringify(pairs) ==
    LET present == {i \in DOMAIN pairs : pairs[i][2] # None}
        keys == {pairs[i][1] : i \in present}
    IN  [json |-> [k \in keys |->
            pairs[CHOOSE i \in present : pairs[i][1] = k][2][1]]]
\* JSON.stringify(result, null, 2) of a decoded value.
JsonStringifyValue(v) == [json |-> IF v.isNull THEN Null ELSE v.obj]

\* ------------------------------------------------------------- tool handlers
Shaped(text) == [threw |-> FALSE, text |-> text, error |-> NonError]
ShapeThrows(msg) == [threw |-> TRUE, text |-> "", error |-> ErrorOf(msg)]
ReadOfNull(k) == "Cannot read properties of null (reading '" \o k \o "')"
ReadOfUndefined(k) ==
    "Cannot read properties of undefined (reading '" \o k \o "')"
\* The value of result.results, which may be undefined.
Results(v) == Get(v, "results")
\* result.results.length
Total(v) == Some(Len(Results(v)[1]))

\* JSON.stringify({ total, hasMore, nextCursor, [key]: result.results }):
\* notion_search, notion_query_database (key results) and
\* notion_get_block_children (key blocks).
ShapeListing(key, v) ==
    IF v.isNull THEN ShapeThrows(ReadOfNull("results"))
    ELSE IF Results(v) = None THEN ShapeThrows(ReadOfUndefined("length"))
    ELSE Shaped(JsonStringify(<<
            <<"total", Total(v)>>,
            <<"hasMore", Get(v, "has_more")>>,
            <<"nextCursor", Get(v, "next_cursor")>>,
            <<key, Results(v)>> >>))
\* JSON.stringify({ total, hasMore, users: result.results }): notion_list_users.
ShapeUsers(v) ==
    IF v.isNull THEN ShapeThrows(ReadOfNull("results"))
    ELSE IF Results(v) = None THEN ShapeThrows(ReadOfUndefined("length"))
    ELSE Shaped(JsonStringify(<<
            <<"total", Total(v)>>,
            <<"hasMore", Get(v, "has_more")>>,
            <<"users", Results(v)>> >>))
\* JSON.stringify({ success: true, [key]: result }): the create and update tools.
ShapeCreated(key, v) ==
    Shaped(JsonStringify(<<
        <<"success", Some(TRUE)>>,
        <<key, Some(IF v.isNull THEN Null ELSE v.obj)>> >>))
\* JSON.stringify({ success: true, blocks: result.results })
ShapeAppended(v) ==
    IF v.isNull THEN ShapeThrows(ReadOfNull("results"))
    ELSE Shaped(JsonStringify(<<
            <<"success", Some(TRUE)>>,
            <<"blocks", Results(v)>> >>))
\* JSON.stringify({ success: true, archived: result.archived, block: result })
ShapeDeleted(v) ==
    IF v.isNull THEN ShapeThrows(ReadOfNull("archived"))
    ELSE Shaped(JsonStringify(<<
            <<"success", Some(TRUE)>>,
            <<"archived", Get(v, "archived")>>,
            <<"block", Some(v.obj)>> >>))

\* The text a handler builds from the client's result, or the TypeError that
\* building it raises.
ShapeResult(tool, v) ==
    CASE tool \in ReadTools -> Shaped(JsonStringifyValue(v))
      [] tool = "notion_search" -> ShapeListing("results", v)
      [] tool = "notion_query_database" -> ShapeListing("results", v)
      [] tool = "notion_get_block_children" -> ShapeListing("blocks", v)
      [] tool = "notion_list_users" -> ShapeUsers(v)
      [] tool = "notion_create_database" -> ShapeCreated("database", v)
      [] tool = "notion_create_page" -> ShapeCreated("page", v)
      [] tool = "notion_update_page" -> ShapeCreated("page", v)
      [] tool = "notion_append_block_children" -> ShapeAppended(v)
      [] tool = "notion_delete_block" -> ShapeDeleted(v)

\* { content: [{ type: "text", text }] }
successResult(text) == [content |-> <<[type |-> "text", text |-> text]>>]
\* An errorResult that reads .message off whatever was thrown.
errorMessageUnchecked(error) == error.message
\* error instanceof Error ? error.message : "An unknown error occurred"
errorMessage(error) ==
    IF error.instanceofError THEN error.message
    ELSE "An unknown error occurred"
errorResult(error) ==
    [content |-> <<[type |-> "text", text |-> "Error: " \o errorMessage(error)]>>,
     isError |-> TRUE]

\* ---------------------------------------------------------- the environment
\* Values of process.env.NOTION_API_KEY.
EnvValues == {Undefined, "", "secret_k1"}

\* Arguments the callers of the model pass to each tool.
Page == [startCursor : {None, Some("c1")}, pageSize : {None, Some(50)}]
ToolArgs(tool) ==
    CASE tool = "notion_search" ->
            {[query |-> Some("q"), filter |-> None, sort |-> None,
              startCursor |-> None, pageSize |-> None],
             [query |-> Some("q"), filter |-> Some("{filter}"),
              sort |-> Some("{sort}"), startCursor |-> Some("c1"),
              pageSize |-> Some(50)],
             [query |-> Some(""), filter |-> None, sort |-> None,
              startCursor |-> Some(""), pageSize |-> Some(0)],
             [query |-> None, filter |-> None, sort |-> None,
              startCursor |-> None, pageSize |-> None]}
      [] tool = "notion_get_database" -> {[databaseId |-> "id1"]}
      [] tool = "notion_query_database" ->
            {[databaseId |-> "id1", filter |-> None, sorts |-> None,
              startCursor |-> None, pageSize |-> None],
             [databaseId |-> "id1", filter |-> Some("{filter}"),
              sorts |-> Some("[sorts]"), startCursor |-> Some("c1"),
              pageSize |-> Some(50)]}
      [] tool = "notion_create_database" ->
            {[parentPageId |-> "id1", title |-> "T", properties |-> "{props}"]}
      [] tool = "notion_create_page" ->
            {[parentId |-> "id1", parentType |-> "database_id",
              properties |-> "{props}", children |-> ch] :
                ch \in {None, Some("[children]")}}
      [] tool = "notion_get_page" -> {[pageId |-> "id1"]}
      [] tool = "notion_update_page" ->
            {[pageId |-> "id1", properties |-> pr, archived |-> ar] :
                pr \in {None, Some("{props}")},
                ar \in {None, Some(FALSE), Some(TRUE)}}
      [] tool = "notion_get_block" -> {[blockId |-> "id1"]}
      [] tool = "notion_get_block_children" ->
            {[blockId |-> "id1", startCursor |-> p.startCursor,
              pageSize |-> p.pageSize] : p \in Page}
      [] tool = "notion_append_block_children" ->
            {[blockId |-> "id1", children |-> "[children]"]}
      [] tool = "notion_delete_block" -> {[blockId |-> "id1"]}
      [] tool = "notion_list_users" -> Page
      [] tool = "notion_get_user" -> {[userId |-> u] : u \in {"id1", "a b/?c"}}

\* What the server answers to a fetch.
Response(status, statusText, retryAfter, body, readable) ==
    [status |-> status, statusText |-> statusText, retryAfter |-> retryAfter,
     body |-> body, readable |-> readable]
OkResponses ==
    {Response(200, "OK", None, b, TRUE) :
        b \in {BodyListMore, BodyListEnd, BodyObject, BodyNull, BodyHtml}}
ThrottledResponses ==
    {Response(429, "Too Many Requests", ra, "", TRUE) :
        ra \in {None} \cup {Some(x) : x \in RetryAfterValues}}
ErrorResponses ==
    {Response(404, "Not Found", None, BodyNotFound, TRUE),
     Response(404, "Not Found", None, BodyNotFound, FALSE),
     Response(500, "Internal Server Error", None, "", TRUE)}
Responses == OkResponses \cup ThrottledResponses \cup ErrorResponses
\* What a fetch that fails rejects with.
Rejections == {ErrorOf("fetch failed"), NonError}

\* ------------------------------------------------------------------- state
NoResult == [kind |-> "none", value |-> JsonNull, error |-> NonError]
Returned(v) == [kind |-> "value", value |-> v, error |-> NonError]
Thrown(e) == [kind |-> "throw", value |-> JsonNull, error |-> e]
NoEnvelope == [content |-> <<>>]

\* tool, args, req: the tool invoked, the arguments it was given and the
\* this.request(method, path, body) its client method makes of them.
\* pc: "idle", "throttleWait" (in throttle's setTimeout), "admitted"
\* (throttle() has pushed and returned, request() is yet to resume from
\* `await this.throttle()`), "fetching" (awaiting fetch), "readingBody"
\* (awaiting res.text() or res.json()), "backoff" (in the 429 branch's
\* setTimeout), "done" (the handler has returned its envelope).
\* since / wakeAt: when the running timer was armed and when it is due (0
\* when none runs).
\* checkedAt: when throttle() read `now` for each attempt of the call;
\* admittedAt: the timestamp throttle() pushed for each attempt.  sent,
\* sentAt, received, backoffs: the fetches of the call, when each was
\* issued, the responses, and the delay asked of setTimeout after each 429.
IdleCall ==
    [pc |-> "idle", tool |-> "", args |-> EmptyObject,
     req |-> Req("", "", None),
     since |-> 0, wakeAt |-> 0, checkedAt |-> <<>>, admittedAt |-> <<>>,
     sent |-> <<>>, sentAt |-> <<>>, received |-> <<>>, backoffs |-> <<>>,
     result |-> NoResult, envelope |-> NoEnvelope]

Init ==
    /\ env \in EnvValues
    /\ _client = NoClient
    /\ requestTimestamps = <<>>
    /\ now = 0
    /\ call = [c \in Calls |-> IdleCall]
    /\ admitted = <<>>
    /\ requests = 0
    /\ drifted = 0

\* The handler's catch: the envelope of a failure, the call is over.
Fail(cr, e) ==
    [cr EXCEPT !.pc = "done", !.result = Thrown(e), !.envelope = errorResult(e)]
\* The handler's try, after the client returned v.
Succeed(cr, v) ==
    LET sh == ShapeResult(cr.tool, v)
    IN  [cr EXCEPT !.pc = "done", !.result = Returned(v),
                   !.envelope = IF sh.threw THEN errorResult(sh.error)
                                ELSE successResult(sh.text)]
\* fetch(url, options) is called: the call awaits the response.
Fetch(cr, apiKey) ==
    [cr EXCEPT !.pc = "fetching",
               !.sent = Append(@, WireRequest(apiKey, cr.req)),
               !.sentAt = Append(@, now)]

\* throttle() has pushed its timestamp and returned.
Admit(cr, t) ==
    [cr EXCEPT !.pc = "admitted", !.admittedAt = Append(@, t),
               !.since = 0, !.wakeAt = 0]

\* The clock moves by d single milliseconds.
ClockMoves == {0, 1}
ClockMovesBy(d) ==
    /\ drifted + d <= MaxDrift
    /\ now + d <= MaxTime
    /\ now' = now + d
    /\ drifted' = drifted + d

\* this.request(method, path, body) on the client whose window is `window`,
\* up to its first suspension: throttle() reads the clock, prunes and
\* decides with that reading, then either arms its timer or reads the clock
\* again, d ms later, and pushes that second reading.
BeginRequest(c, cr, apiKey, window, d) ==
    LET ts == Prune(window, now)
        checked == [cr EXCEPT !.checkedAt = Append(@, now)]
    IN  /\ ClockMovesBy(d)
        /\ IF MustWait(ts, now)
           THEN /\ requestTimestamps' = ts
                /\ admitted' = admitted
                /\ call' = [call EXCEPT ![c] =
                       [checked EXCEPT !.pc = "throttleWait", !.since = now',
                          !.wakeAt = now' + TimerDelay(Num(WaitMs(now, ts[1])))]]
           ELSE /\ requestTimestamps' = Append(ts, now')
                /\ admitted' = Append(admitted, now')
                /\ call' = [call EXCEPT ![c] = Admit(checked, now')]

\* The calls that will enter request() again when their backoff ends.
PendingRetries == Cardinality({c \in Calls : call[c].pc = "backoff"})

\* A tool handler is invoked: getClient(), the client method, request().
Invoke(c, tool, a, d) ==
    /\ call[c].pc = "idle"
    /\ requests + PendingRetries < MaxRequests
    /\ LET cr == [IdleCall EXCEPT !.tool = tool, !.args = a]
       IN  IF NeedsConstruction(_client) /\ MissingKey(env)
           THEN /\ call' = [call EXCEPT ![c] = Fail(cr, ErrorOf(ConfigMessage))]
                /\ d = 0
                /\ UNCHANGED <<_client, requestTimestamps, now, admitted,
                               requests, drifted>>
           ELSE /\ _client' = IF NeedsConstruction(_client)
                              THEN [NewClient(env) EXCEPT
                                        !.instance = _client.instance + 1]
                              ELSE _client
                /\ requests' = requests + 1
                /\ BeginRequest(c, [cr EXCEPT !.req = ToolRequest(tool, a)],
                                _client'.apiKey,
                                IF NeedsConstruction(_client) THEN NewWindow
                                ELSE requestTimestamps, d)
    /\ UNCHANGED env

\* A throttle() that pushes the `now` it read when the check began.
ThrottleResumePushesCheckTime(c) ==
    /\ call[c].pc = "throttleWait"
    /\ TimerFired(call[c].wakeAt, now)
    /\ requestTimestamps' = Append(requestTimestamps, call[c].since)
    /\ admitted' = Append(admitted, call[c].since)
    /\ call' = [call EXCEPT ![c] = Admit(call[c], call[c].since)]
    /\ UNCHANGED <<env, _client, now, requests, drifted>>

\* A throttle() that puts the new timestamp at the front (unshift).
ThrottleResumeUnshifts(c) ==
    /\ call[c].pc = "throttleWait"
    /\ TimerFired(call[c].wakeAt, now)
    /\ requestTimestamps' = <<now>> \o requestTimestamps
    /\ admitted' = Append(admitted, now)
    /\ call' = [call EXCEPT ![c] = Admit(call[c], now)]
    /\ UNCHANGED <<env, _client, now, requests, drifted>>

\* throttle()'s timer fires: Date.now() is pushed without a second look at the
\* window, and throttle() returns.
ThrottleResume(c) ==
    /\ call[c].pc = "throttleWait"
    /\ TimerFired(call[c].wakeAt, now)
    /\ requestTimestamps' = Append(requestTimestamps, now)
    /\ admitted' = Append(admitted, now)
    /\ call' = [call EXCEPT ![c] = Admit(call[c], now)]
    /\ UNCHANGED <<env, _client, now, requests, drifted>>

\* request() resumes from `await this.throttle()` and calls fetch.
SendFetch(c) ==
    /\ call[c].pc = "admitted"
    /\ call' = [call EXCEPT ![c] = Fetch(call[c], _client.apiKey)]
    /\ UNCHANGED <<env, _client, requestTimestamps, now, admitted, requests,
                 drifted>>

\* fetch resolves with the response (status and headers): on a 429 request()
\* arms the backoff timer, otherwise it starts reading the body.
Respond(c, res) ==
    /\ call[c].pc = "fetching"
    /\ LET cr == [call[c] EXCEPT !.received = Append(@, res)]
       IN  IF IsThrottled(res.status)
           THEN /\ Len(call[c].backoffs) < Max429
                /\ requests + PendingRetries < MaxRequests
                /\ call' = [call EXCEPT ![c] =
                      [cr EXCEPT !.pc = "backoff", !.since = now,
                                 !.backoffs = Append(@, BackoffMs(res.retryAfter)),
                                 !.wakeAt = now + TimerDelay(BackoffMs(res.retryAfter))]]
           ELSE call' = [call EXCEPT ![c] = [cr EXCEPT !.pc = "readingBody"]]
    /\ UNCHANGED <<env, _client, requestTimestamps, now, admitted, requests,
                 drifted>>

\* res.text() or res.json() settles: request() throws the API error or the
\* SyntaxError, or returns the decoded value, and the handler makes its
\* envelope.
BodyArrives(c) ==
    /\ call[c].pc = "readingBody"
    /\ LET cr == call[c]
           res == cr.received[Len(cr.received)]
       IN  call' = [call EXCEPT ![c] =
              IF ~Ok(res.status)
              THEN Fail(cr, ErrorOf(ApiErrorMessage(res.status,
                      res.statusText,
                      IF res.readable THEN res.body ELSE "")))
              ELSE IF ~JsonParse(res.body).ok
              THEN Fail(cr, ErrorOf(SyntaxErrorMessage(res.body)))
              ELSE Succeed(cr, JsonParse(res.body).value)]
    /\ UNCHANGED <<env, _client, requestTimestamps, now, admitted, requests,
                 drifted>>

\* The fetch fails (network error): request() lets the rejection through.
FetchRejects(c, e) ==
    /\ call[c].pc = "fetching"
    /\ call' = [call EXCEPT ![c] = Fail(call[c], e)]
    /\ UNCHANGED <<env, _client, requestTimestamps, now, admitted, requests,
                 drifted>>

\* The 429 branch's timer fires: return this.request(method, path, body).
BackoffResume(c, d) ==
    /\ call[c].pc = "backoff"
    /\ TimerFired(call[c].wakeAt, now)
    /\ requests' = requests + 1
    /\ BeginRequest(c, call[c], _client.apiKey, requestTimestamps, d)
    /\ UNCHANGED <<env, _client>>

\* Time passes, by half a second or by a single millisecond, wherever the
\* calls stand.
TickSteps == {1, 500}
Tick(d) ==
    /\ IF d = 1
       THEN ClockMovesBy(d)
       ELSE now + d <= MaxTime /\ now' = now + d /\ drifted' = drifted
    /\ UNCHANGED <<env, _client, requestTimestamps, call, admitted, requests>>

\* Time passes up to the moment the next timer is due, or up to the
\* millisecond before it.
Waiting == {c \in Calls : call[c].pc \in {"throttleWait", "backoff"}
                          /\ call[c].wakeAt > now}
TickToTimer ==
    /\ Waiting # {}
    /\ \E c \in Waiting :
          /\ \A d \in Waiting : call[c].wakeAt <= call[d].wakeAt
          /\ call[c].wakeAt <= MaxTime
          /\ \E t \in {call[c].wakeAt - 1, call[c].wakeAt} :
                t > now /\ now' = t
    /\ UNCHANGED <<env, _client, requestTimestamps, call, admitted, requests,
                   drifted>>

\* The handler's promise settles with the envelope; the slot is free again.
Return(c) ==
    /\ call[c].pc = "done"
    /\ call' = [call EXCEPT ![c] = IdleCall]
    /\ UNCHANGED <<env, _client, requestTimestamps, now, admitted, requests,
                 drifted>>

\* Every other call has been awaited.
Awaited(c) == \A d \in Calls \ {c} : call[d].pc = "idle"
\* The slots stand for nothing but "another call": a new call takes the
\* first free one.
FirstFree(c) == \A d \in Calls : d < c => call[d].pc # "idle"

\* Callers that await each invocation before issuing the next; any tool, any
\* arguments, any answer of the server; time passes only while a timer runs,
\* and not within a step.
Next ==
    \/ \E c \in Calls, tool \in Tools : \E a \in ToolArgs(tool) :
          Awaited(c) /\ FirstFree(c) /\ Invoke(c, tool, a, 0)
    \/ \E c \in Calls : ThrottleResume(c)
    \/ \E c \in Calls : SendFetch(c)
    \/ \E c \in Calls : BodyArrives(c)
    \/ \E c \in Calls, res \in Responses : Respond(c, res)
    \/ \E c \in Calls, e \in Rejections : FetchRejects(c, e)
    \/ \E c \in Calls : BackoffResume(c, 0)
    \/ \E c \in Calls : Return(c)
    \/ TickToTimer

Spec == Init /\ [][Next]_vars

\* The throttle and the retry loop do not look at the tool, so in the two
\* specifications about timing a GET without a body and a POST with one
\* stand for all.
TimedTools == {"notion_get_page", "notion_create_database"}

\* Callers that await each invocation before issuing the next, with a clock
\* that also advances between calls.
NextSeq ==
    \/ \E c \in Calls, tool \in TimedTools, d \in ClockMoves :
       \E a \in ToolArgs(tool) :
          Awaited(c) /\ FirstFree(c) /\ Invoke(c, tool, a, d)
    \/ \E c \in Calls : ThrottleResume(c)
    \/ \E c \in Calls : SendFetch(c)
    \/ \E c \in Calls : BodyArrives(c)
    \/ \E c \in Calls, res \in Responses : Respond(c, res)
    \/ \E c \in Calls, e \in Rejections : FetchRejects(c, e)
    \/ \E c \in Calls, d \in ClockMoves : BackoffResume(c, d)
    \/ \E c \in Calls : Return(c)
    \/ \E d \in TickSteps : Tick(d)
    \/ TickToTimer

SpecSeq == Init /\ [][NextSeq]_vars

\* Callers that invoke tools concurrently.  The throttle does not look at the
\* answer beyond telling a 429 from the rest, so one tool, a success and a
\* 429 stand for all.
ConcTools == {"notion_get_page"}
ConcResponses ==
    {Response(200, "OK", None, BodyObject, TRUE),
     Response(429, "Too Many Requests", Some("2"), "", TRUE)}
NextConc ==
    \/ \E c \in Calls, tool \in ConcTools, d \in ClockMoves :
       \E a \in ToolArgs(tool) :
          FirstFree(c) /\ Invoke(c, tool, a, d)
    \/ \E c \in Calls : ThrottleResume(c)
    \/ \E c \in Calls : SendFetch(c)
    \/ \E c \in Calls : BodyArrives(c)
    \/ \E c \in Calls, res \in ConcResponses : Respond(c, res)
    \/ \E c \in Calls, d \in ClockMoves : BackoffResume(c, d)
    \/ \E c \in Calls : Return(c)
    \/ \E d \in TickSteps : Tick(d)
    \/ TickToTimer

SpecConc == Init /\ [][NextConc]_vars

\* =================================================================== claims
\* The retained timestamps that lie in the window trailing t.
InWindow(ts, t) == {i \in DOMAIN ts : t - ts[i] < windowMs}
\* The calls that have sent at least one fetch.
Last(q) == q[Len(q)]

\* C1: under any interleaving of concurrent calls, the retained timestamps
\* within the trailing 1000 ms never number more than 3 (checked under
\* SpecConc, where calls overlap).
C1_WindowNeverExceedsLimit ==
    Cardinality(InWindow(requestTimestamps, now)) <= maxRequests

\* C2: when each call is awaited before the next is issued, the (k+3)-th
\* admission is at least 1000 ms after the k-th (checked under SpecSeq).
C2_FourthAdmissionAfterWindow ==
    \A k \in DOMAIN admitted :
        k + maxRequests <= Len(admitted) =>
            admitted[k + maxRequests] - admitted[k] >= windowMs
\* A burst of four: three admissions at one instant, and the fourth, after
\* the throttle's wait, exactly 1050 ms later.
C2_Witness ==
    /\ Len(admitted) >= 4
    /\ admitted[3] = admitted[1]
    /\ admitted[4] = admitted[1] + 1050

\* The 429 responses among the responses a call has received.
Throttlings(cr) == {i \in DOMAIN cr.received : cr.received[i].status = 429}
\* The call got every response it sent a fetch for (no fetch was rejected).
Answered(cr) == cr.received # <<>> /\ Len(cr.received) = Len(cr.sent)

\* C3: a 429 with Retry-After: 2 arms a 2000 ms timer, the retry is the same
\* request and enters request() no sooner than a 2000 ms timer armed when
\* the throttled fetch went out can fire; for
\* [429 with Retry-After: 2, 200] there are exactly two fetches and the call
\* returns the decoded payload of the 200.
C3_RetryAfterHonoured ==
    \A c \in Calls :
        LET cr == call[c]
        IN  /\ \A i \in DOMAIN cr.backoffs :
                  cr.received[i].retryAfter = Some("2") =>
                      /\ cr.backoffs[i] = Num(2000)
                      /\ i < Len(cr.checkedAt) =>
                            TimerFired(cr.sentAt[i] + 2000, cr.checkedAt[i + 1])
            /\ (cr.pc = "backoff" /\ Last(cr.received).retryAfter = Some("2"))
                  => cr.wakeAt = cr.since + 2000
            /\ \A i \in DOMAIN cr.sent :
                  /\ cr.sent[i].method = cr.sent[1].method
                  /\ cr.sent[i].url = cr.sent[1].url
                  /\ cr.sent[i].body = cr.sent[1].body
                  /\ cr.sent[i].body = IF cr.req.method \in {"POST", "PATCH"}
                                       THEN cr.req.body ELSE None
            /\ (/\ cr.pc = "done"
                /\ Len(cr.received) = 2
                /\ cr.received[1].status = 429
                /\ cr.received[1].retryAfter = Some("2")
                /\ cr.received[2].status = 200
                /\ cr.received[2].body = BodyObject)
                  => /\ Len(cr.sent) = 2
                     /\ cr.result.kind = "value"
                     /\ ~cr.result.value.isNull
                     /\ cr.result.value.obj =
                            [object |-> "block", id |-> "id1", archived |-> TRUE]
\* [429 with Retry-After: 2, 200] has been served: the retry went out exactly
\* 2000 ms after the first fetch and the call is over.
C3_Witness ==
    \E c \in Calls :
        /\ call[c].pc = "done"
        /\ Len(call[c].received) = 2
        /\ call[c].received[1].status = 429
        /\ call[c].received[1].retryAfter = Some("2")
        /\ call[c].received[2].status = 200
        /\ call[c].received[2].body = BodyObject
        /\ call[c].sentAt[2] = call[c].sentAt[1] + 2000

\* C4: every response of a call but its last is a 429 and each 429 is
\* followed by one more fetch; a call that is over after k 429s has sent
\* exactly k+1 fetches, its last response is no 429, and its outcome is that
\* of the last fetch.
C4_NeverFailsOn429 ==
    \A c \in Calls :
        LET cr == call[c]
            n == Len(cr.received)
            last == Last(cr.received)
        IN  /\ \A i \in 1..(n - 1) : cr.received[i].status = 429
            /\ Cardinality(Throttlings(cr)) = Len(cr.backoffs)
            /\ (cr.pc = "backoff") =>
                  (last.status = 429 /\ Len(cr.sent) = n)
            /\ (cr.pc = "done" /\ cr.sent # <<>>) =>
                  (Len(cr.sent) = Len(cr.backoffs) + 1)
            /\ (cr.pc = "done" /\ Answered(cr)) =>
                  /\ last.status # 429
                  /\ (Ok(last.status) /\ JsonParse(last.body).ok) =>
                        (cr.result.kind = "value")
                  /\ (~Ok(last.status)) => (cr.result.kind = "throw")
            /\ (cr.pc = "done" /\ cr.sent # <<>> /\ ~Answered(cr)) =>
                  (cr.result.kind = "throw")
\* Two 429s and then a 200: three fetches, and the call returned a value.
C4_Witness ==
    \E c \in Calls :
        /\ call[c].pc = "done"
        /\ Len(call[c].sent) = 3
        /\ Len(call[c].received) = 3
        /\ call[c].received[1].status = 429
        /\ call[c].received[2].status = 429
        /\ call[c].received[3].status = 200
        /\ call[c].result.kind = "value"

\* C5: a 429 without a Retry-After header arms a 1000 ms timer.
C5_DefaultBackoffOneSecond ==
    \A c \in Calls :
        LET cr == call[c]
        IN  /\ \A i \in DOMAIN cr.backoffs :
                  cr.received[i].retryAfter = None => cr.backoffs[i] = Num(1000)
            /\ (cr.pc = "backoff" /\ Last(cr.received).retryAfter = None)
                  => cr.wakeAt = cr.since + 1000
\* A call is in the backoff of a 429 that had no Retry-After header.
C5_Witness ==
    \E c \in Calls :
        /\ call[c].pc = "backoff"
        /\ Last(call[c].received).status = 429
        /\ Last(call[c].received).retryAfter = None
        /\ call[c].wakeAt = now + 1000

\* C6: a 429 whose Retry-After is an HTTP date arms a 1000 ms timer.
C6_UnparseableBackoffOneSecond ==
    \A c \in Calls :
        LET cr == call[c]
        IN  /\ \A i \in DOMAIN cr.backoffs :
                  cr.received[i].retryAfter = Some(HttpDate) =>
                      cr.backoffs[i] = Num(1000)
            /\ (cr.pc = "backoff" /\ Last(cr.received).retryAfter = Some(HttpDate))
                  => cr.wakeAt = cr.since + 1000

\* C7: a call whose last response is a non-success status other than 429
\* reads the body and then fails with one Error whose message holds the status code, the status text
\* and the body text ("" when the body cannot be read), and that response is
\* the call's last fetch.
ExpectedApiError(res) ==
    CASE res.status = 404 /\ res.readable ->
            "Notion API error (404 Not Found): not_found"
      [] res.status = 404 /\ ~res.readable ->
            "Notion API error (404 Not Found): "
      [] res.status = 500 ->
            "Notion API error (500 Internal Server Error): "
C7_ErrorStatusFailsOnce ==
    \A c \in Calls :
        LET cr == call[c]
        IN  (/\ Answered(cr)
             /\ ~Ok(Last(cr.received).status)
             /\ Last(cr.received).status # 429)
                => /\ cr.pc \in {"readingBody", "done"}
                   /\ Len(cr.sent) = Cardinality(Throttlings(cr)) + 1
                   /\ (cr.pc = "done") =>
                        /\ cr.result.kind = "throw"
                        /\ cr.result.error.instanceofError
                        /\ cr.result.error.message =
                              ExpectedApiError(Last(cr.received))
\* A 404 with body "not_found" was the answer to the call's only fetch.
C7_Witness ==
    \E c \in Calls :
        /\ call[c].pc = "done"
        /\ Len(call[c].sent) = 1
        /\ Len(call[c].received) = 1
        /\ call[c].received[1].status = 404
        /\ call[c].received[1].readable
        /\ call[c].result.error.message =
              "Notion API error (404 Not Found): not_found"

\* C8: with NOTION_API_KEY unset or empty no client is ever constructed, no
\* timestamp is recorded and no fetch is sent; every invocation of any tool
\* ends at once with the configuration error.
C8_NoRequestWithoutCredential ==
    (env = Undefined \/ env = "") =>
        /\ ~_client.constructed
        /\ requestTimestamps = <<>>
        /\ admitted = <<>>
        /\ \A c \in Calls :
              /\ call[c].sent = <<>>
              /\ call[c].pc \in {"idle", "done"}
              /\ call[c].pc = "done" =>
                    /\ call[c].result.kind = "throw"
                    /\ call[c].result.error.instanceofError
                    /\ call[c].result.error.message = ConfigMessage
\* A tool was invoked while the variable is the empty string, and failed.
C8_Witness ==
    /\ env = ""
    /\ \E c \in Calls :
          /\ call[c].pc = "done"
          /\ call[c].tool = "notion_search"
          /\ call[c].result.error.message = ConfigMessage

\* The failure raised while a finished call was served, if any: what the
\* client threw, or what shaping the client's result threw.
Failure(cr) ==
    IF cr.result.kind = "throw" THEN Some(cr.result.error)
    ELSE IF ShapeResult(cr.tool, cr.result.value).threw
    THEN Some(ShapeResult(cr.tool, cr.result.value).error)
    ELSE None
IsErrorEnvelope(e) == "isError" \in DOMAIN e /\ e.isError = TRUE

\* C9: every finished invocation has an envelope with one text item; if a
\* failure was raised (in the constructor, by the API, by the transport or
\* the decoder, or while shaping the result) the envelope has isError = true
\* and the text "Error: " followed by the failure's message, or by "An
\* unknown error occurred" when the thrown value is no Error; otherwise the
\* envelope has no error marker.
C9_FailuresBecomeErrorEnvelopes ==
    \A c \in Calls :
        LET cr == call[c]
        IN  cr.pc = "done" =>
              /\ Len(cr.envelope.content) = 1
              /\ cr.envelope.content[1].type = "text"
              /\ (Failure(cr) # None) =>
                    /\ IsErrorEnvelope(cr.envelope)
                    /\ (Failure(cr)[1].instanceofError) =>
                          (cr.envelope.content[1].text =
                              "Error: " \o Failure(cr)[1].message)
                    /\ (~Failure(cr)[1].instanceofError) =>
                          (cr.envelope.content[1].text =
                              "Error: An unknown error occurred")
              /\ (Failure(cr) = None) => ~IsErrorEnvelope(cr.envelope)
\* A fetch rejected with a value that is no Error, and the handler answered
\* with the unknown-error envelope.
C9_Witness ==
    \E c \in Calls :
        /\ call[c].pc = "done"
        /\ call[c].sent # <<>>
        /\ call[c].result.kind = "throw"
        /\ ~call[c].result.error.instanceofError
        /\ IsErrorEnvelope(call[c].envelope)
        /\ call[c].envelope.content[1].text = "Error: An unknown error occurred"

\* C10: the success envelope of a listing tool holds total, hasMore and
\* nextCursor with the values of the client's result, and the success
\* envelope of a mutation tool holds success = true.
C10_ListingEnvelopeCarriesCursor ==
    \A c \in Calls :
        LET cr == call[c]
        IN  (cr.pc = "done" /\ ~IsErrorEnvelope(cr.envelope)) =>
              LET json == cr.envelope.content[1].text.json
                  res == cr.result.value.obj
              IN  /\ (cr.tool \in ListingTools) =>
                        /\ {"total", "hasMore", "nextCursor"} \subseteq DOMAIN json
                        /\ json.total = Len(res.results)
                        /\ json.hasMore = res.has_more
                        /\ json.nextCursor = res.next_cursor
                  /\ (cr.tool \in MutationTools) =>
                        ("success" \in DOMAIN json /\ json.success = TRUE)

\* The optional arguments of the operations that build a body, each with the
\* key it is sent under.
OptionalKeys(tool) ==
    CASE tool = "notion_search" ->
            {<<"query", "query">>, <<"filter", "filter">>, <<"sort", "sort">>,
             <<"startCursor", "start_cursor">>, <<"pageSize", "page_size">>}
      [] tool = "notion_query_database" ->
            {<<"filter", "filter">>, <<"sorts", "sorts">>,
             <<"startCursor", "start_cursor">>, <<"pageSize", "page_size">>}
      [] tool = "notion_create_page" -> {<<"children", "children">>}
      [] tool = "notion_update_page" ->
            {<<"properties", "properties">>, <<"archived", "archived">>}
      [] OTHER -> {}
\* The two operations whose optional arguments go to the query string, and
\* the URL each has without any.
QueryTools == {"notion_get_block_children", "notion_list_users"}
BareUrl(cr) ==
    IF cr.tool = "notion_list_users" THEN BASE_URL \o "/users"
    ELSE BASE_URL \o "/blocks/" \o cr.args.blockId \o "/children"

\* C11: in every fetch of search, queryDatabase, createPage and updatePage
\* an optional argument that was omitted has no key in the body; in every
\* fetch of getBlockChildren and listUsers an omitted optional argument has
\* no parameter in the query string (none omitted: both parameters; one
\* omitted: only the other; both omitted: no query string at all); search
\* with a query and nothing else sends the body {query}.
C11_OmittedOptionalHasNoKey ==
    \A c \in Calls :
        LET cr == call[c]
            a == cr.args
        IN  \A i \in DOMAIN cr.sent :
              /\ \A p \in OptionalKeys(cr.tool) :
                    a[p[1]] = None => p[2] \notin DOMAIN cr.sent[i].body[1]
              /\ (cr.tool \in QueryTools) =>
                    /\ (a.startCursor = None /\ a.pageSize = None) =>
                          cr.sent[i].url = BareUrl(cr)
                    /\ (a.startCursor = None /\ a.pageSize = Some(50)) =>
                          cr.sent[i].url = BareUrl(cr) \o "?page_size=50"
                    /\ (a.startCursor = Some("c1") /\ a.pageSize = None) =>
                          cr.sent[i].url = BareUrl(cr) \o "?start_cursor=c1"
                    /\ (a.startCursor = Some("c1") /\ a.pageSize = Some(50)) =>
                          cr.sent[i].url =
                              BareUrl(cr) \o "?start_cursor=c1&page_size=50"
              /\ (/\ cr.tool = "notion_search"
                  /\ a.query = Some("q")
                  /\ a.filter = None /\ a.sort = None
                  /\ a.startCursor = None /\ a.pageSize = None) =>
                    cr.sent[i].body = Some([query |-> "q"])
\* search was called with only the query "q", and its fetch went out with a
\* body whose only key is query.
C11_Witness ==
    \E c \in Calls :
        /\ call[c].tool = "notion_search"
        /\ call[c].args.query = Some("q")
        /\ call[c].args.filter = None
        /\ call[c].args.pageSize = None
        /\ call[c].sent # <<>>
        /\ DOMAIN call[c].sent[1].body[1] = {"query"}

\* C12: of two calls, the one whose latest admission check began first has
\* recorded its admission timestamp no later than the other (both being
\* admitted), under any interleaving (checked under SpecConc).
C12_AdmissionKeepsOrder ==
    \A c, d \in Calls :
        LET cr == call[c]
            dr == call[d]
        IN  (/\ cr.admittedAt # <<>>
             /\ Len(cr.admittedAt) = Len(cr.checkedAt)
             /\ dr.admittedAt # <<>>
             /\ Len(dr.admittedAt) = Len(dr.checkedAt)
             /\ Last(cr.checkedAt) < Last(dr.checkedAt))
                => Last(cr.admittedAt) <= Last(dr.admittedAt)

\* The query string of the model's page arguments.
ExpectedQuery(a) ==
    CASE a.startCursor = None /\ a.pageSize = None -> ""
      [] a.startCursor = None /\ a.pageSize = Some(50) -> "?page_size=50"
      [] a.startCursor = Some("c1") /\ a.pageSize = None -> "?start_cursor=c1"
      [] a.startCursor = Some("c1") /\ a.pageSize = Some(50) ->
            "?start_cursor=c1&page_size=50"
\* The wire-contract table: the method and the path of each tool's operation.
WireTable(tool, a) ==
    CASE tool = "notion_search" -> <<"POST", "/search">>
      [] tool = "notion_get_database" -> <<"GET", "/databases/" \o a.databaseId>>
      [] tool = "notion_query_database" ->
            <<"POST", "/databases/" \o a.databaseId \o "/query">>
      [] tool = "notion_create_database" -> <<"POST", "/databases">>
      [] tool = "notion_create_page" -> <<"POST", "/pages">>
      [] tool = "notion_get_page" -> <<"GET", "/pages/" \o a.pageId>>
      [] tool = "notion_update_page" -> <<"PATCH", "/pages/" \o a.pageId>>
      [] tool = "notion_get_block" -> <<"GET", "/blocks/" \o a.blockId>>
      [] tool = "notion_get_block_children" ->
            <<"GET", "/blocks/" \o a.blockId \o "/children" \o ExpectedQuery(a)>>
      [] tool = "notion_append_block_children" ->
            <<"PATCH", "/blocks/" \o a.blockId \o "/children">>
      [] tool = "notion_delete_block" -> <<"DELETE", "/blocks/" \o a.blockId>>
      [] tool = "notion_list_users" -> <<"GET", "/users" \o ExpectedQuery(a)>>
      [] tool = "notion_get_user" -> <<"GET", "/users/" \o a.userId>>

\* C13: every fetch of a call has the method of the wire-contract table for
\* the call's tool and the URL made of the base endpoint and the table's
\* path, with the id the caller gave, unchanged, in it; and an invocation
\* makes one operation call: it enters request() once, plus once for each
\* 429 it has been answered and has finished backing off from.
C13_WireContract ==
    \A c \in Calls :
        LET cr == call[c]
        IN  /\ \A i \in DOMAIN cr.sent :
                  /\ cr.sent[i].method = WireTable(cr.tool, cr.args)[1]
                  /\ cr.sent[i].url = BASE_URL \o WireTable(cr.tool, cr.args)[2]
            /\ (cr.checkedAt # <<>>) =>
                  Len(cr.checkedAt) =
                      Len(cr.backoffs) + (IF cr.pc = "backoff" THEN 0 ELSE 1)
            /\ Len(cr.sent) <= Len(cr.checkedAt)
\* notion_get_user was given an id with characters a URL encoder would
\* escape, and its GET went out with the id as given.
C13_Witness ==
    \E c \in Calls :
        /\ call[c].tool = "notion_get_user"
        /\ call[c].args.userId = "a b/?c"
        /\ call[c].sent # <<>>
        /\ call[c].sent[1].method = "GET"
        /\ call[c].sent[1].url = "https://api.notion.com/v1/users/a b/?c"

\* C14: a fetch carries a body exactly when the operation's method is POST
\* or PATCH and it handed request() a body, and the body is the one handed
\* over; a GET or DELETE fetch carries none; every fetch, first attempt or
\* retry, carries Authorization: Bearer <credential>, Content-Type:
\* application/json and Notion-Version: 2022-06-28.
C14_BodyAndHeaders ==
    \A c \in Calls :
        LET cr == call[c]
        IN  \A i \in DOMAIN cr.sent :
              LET f == cr.sent[i]
              IN  /\ (f.body # None) <=>
                        (f.method \in {"POST", "PATCH"} /\ cr.req.body # None)
                  /\ (f.body # None) => (f.body = cr.req.body)
                  /\ (f.method \in {"GET", "DELETE"}) => (f.body = None)
                  /\ f.method \in {"GET", "DELETE", "POST", "PATCH"}
                  /\ f.headers.Authorization = "Bearer " \o env
                  /\ f.headers.ContentType = "application/json"
                  /\ f.headers.NotionVersion = "2022-06-28"
\* A PATCH was answered 429 and re-issued: both fetches carry the body and
\* the bearer credential.
C14_Witness ==
    \E c \in Calls :
        /\ call[c].tool = "notion_update_page"
        /\ Len(call[c].sent) = 2
        /\ call[c].sent[1].method = "PATCH"
        /\ call[c].sent[2].body = Some([archived |-> FALSE])
        /\ call[c].sent[2].headers.Authorization = "Bearer secret_k1"

\* The step issues a fetch of call c.
Fetches(c) == Len(call'[c].sent) = Len(call[c].sent) + 1
\* The step begins an admission check of call c.
Checks(c) == Len(call'[c].checkedAt) = Len(call[c].checkedAt) + 1
\* The step pushes the admission timestamp of call c.
Admits(c) == Len(call'[c].admittedAt) = Len(call[c].admittedAt) + 1

\* Every attempt, first or re-issued, begins one admission check, is
\* admitted once, by a step that appends the clock value it reads last to
\* the window and to nothing else, and is fetched once, after its admission;
\* no other step appends a timestamp.
OneAdmissionPerAttempt ==
    /\ \A c \in Calls :
          /\ Admits(c) =>
                /\ Len(call'[c].admittedAt) = Len(call'[c].checkedAt)
                /\ Len(call'[c].admittedAt) = Len(call[c].sent) + 1
                /\ Last(call'[c].admittedAt) = now'
                /\ Last(call'[c].admittedAt) >= Last(call'[c].checkedAt)
                /\ admitted' = Append(admitted, now')
                /\ requestTimestamps' =
                      Append(IF call[c].pc = "throttleWait"
                             THEN requestTimestamps
                             ELSE Prune(requestTimestamps, now), now')
                /\ \A d \in Calls \ {c} : ~Admits(d)
          /\ Fetches(c) =>
                /\ call[c].pc = "admitted"
                /\ Len(call'[c].sent) = Len(call[c].admittedAt)
                /\ ~Admits(c) /\ ~Checks(c)
                /\ requestTimestamps' = requestTimestamps
          /\ Len(call'[c].sent) <= Len(call'[c].admittedAt)
          /\ Len(call'[c].admittedAt) <= Len(call'[c].checkedAt)
          /\ Len(call'[c].checkedAt) <= Len(call'[c].sent) + 1
    /\ (admitted' # admitted) => \E c \in Calls : Admits(c)

\* C15: every attempt passes admission once before its fetch and appends
\* one timestamp, the clock value read after the wait; when the check had
\* armed a wait of w ms that timestamp is at least w ms after the time the
\* check began.
C15_OneAdmissionPerAttempt ==
    [][/\ OneAdmissionPerAttempt
       /\ \A c \in Calls :
            (Admits(c) /\ call[c].pc = "throttleWait") =>
              /\ call[c].since >= Last(call[c].checkedAt)
              /\ now' >= Last(call[c].checkedAt)
                            + (call[c].wakeAt - call[c].since)
      ]_vars
\* C15, amended: as C15, but the timestamp is the clock value read once the
\* timer of w ms has fired, which is at least w - 1 ms after the time the
\* check began, and later than that time.
C15_AdmissionAfterTimerFired ==
    [][/\ OneAdmissionPerAttempt
       /\ \A c \in Calls :
            (Admits(c) /\ call[c].pc = "throttleWait") =>
              /\ call[c].since >= Last(call[c].checkedAt)
              /\ now' >= Last(call[c].checkedAt)
                            + (call[c].wakeAt - call[c].since) - 1
              /\ now' > Last(call[c].checkedAt)
      ]_vars
\* The re-issue after a 429 found the window full of timestamps of that
\* very millisecond, so it armed 1050 ms, and it was admitted with the
\* timestamp read 1049 ms after its check began.
C15_Witness ==
    \E c \in Calls :
        /\ Len(call[c].checkedAt) = 2
        /\ Len(call[c].admittedAt) = 2
        /\ call[c].checkedAt[2] = 0
        /\ call[c].admittedAt[2] = 1049
        /\ Last(admitted) = 1049
        /\ Last(requestTimestamps) = 1049

\* C16: a step that begins an admission check prunes the window; if 3 or
\* more timestamps remain the call is suspended once, for 1000 minus the age
\* of the oldest retained timestamp plus 50 ms, which is more than 50 and at
\* most 1050 ms; if fewer than 3 remain the call is admitted in the same
\* step; a suspended call keeps its timer whatever the other calls do, and
\* its next step is its admission, without a second check.
C16_BoundedSingleWait ==
    [][\A c \in Calls :
          LET ts == Prune(requestTimestamps, now)
              w == call'[c].wakeAt - call'[c].since
          IN  /\ (Checks(c) /\ Len(ts) >= 3) =>
                    /\ call'[c].pc = "throttleWait"
                    /\ call'[c].since = now'
                    /\ \A i \in DOMAIN ts : ts[1] <= ts[i]
                    /\ w = 1000 - (now - ts[1]) + 50
                    /\ w > 50 /\ w <= 1050
                    /\ ~Admits(c)
              /\ (Checks(c) /\ Len(ts) < 3) =>
                    (call'[c].pc = "admitted" /\ Admits(c))
              /\ (call'[c].pc = "throttleWait") =>
                    (Checks(c) \/ call[c].pc = "throttleWait")
              /\ (call[c].pc = "throttleWait") =>
                    \/ /\ call'[c].pc = "throttleWait"
                       /\ call'[c].wakeAt = call[c].wakeAt
                       /\ call'[c].checkedAt = call[c].checkedAt
                    \/ /\ call'[c].pc = "admitted"
                       /\ Admits(c)
                       /\ call'[c].checkedAt = call[c].checkedAt
      ]_vars
\* Two calls wait at the same time: one suspended for 1050 ms by a window
\* whose oldest timestamp was new, the other for 550 ms, 500 ms later.
C16_Witness ==
    \E c, d \in Calls :
        /\ call[c].pc = "throttleWait"
        /\ call[c].wakeAt - call[c].since = 1050
        /\ call[d].pc = "throttleWait"
        /\ call[d].wakeAt - call[d].since = 550

\* The timestamps of q younger than 1000 ms at time t, in q's order.
Younger(q, t) == SelectSeq(q, LAMBDA x : t - x < 1000)
\* The elements of a sequence.
Range(q) == {q[i] : i \in DOMAIN q}

\* C17: a step that neither begins an admission check nor ends an admission
\* wait (the fetch, a response, be it a success, an error or a 429, the
\* body, a transport failure, the passing of time, the end of a call)
\* leaves the window as it is; a step that begins a check leaves exactly
\* the timestamps younger than 1000 ms by the clock value the check read,
\* in their order, followed by the new one if the call is admitted at once; the step that ends a wait only
\* appends; the timestamp of a failed call stays in the window while it is
\* younger than 1000 ms; and once a client is constructed its credential is
\* the one it was constructed with in every later state.
C17_WindowFrame ==
    [][/\ (\A c \in Calls : ~Checks(c) /\ ~Admits(c)) =>
            requestTimestamps' = requestTimestamps
       /\ \A c \in Calls :
            /\ (Checks(c) /\ ~Admits(c)) =>
                  requestTimestamps' = Younger(requestTimestamps, now)
            /\ (Checks(c) /\ Admits(c)) =>
                  requestTimestamps' =
                      Append(Younger(requestTimestamps, now), now')
            /\ (~Checks(c) /\ Admits(c)) =>
                  requestTimestamps' = Append(requestTimestamps, now')
            /\ (/\ call[c].pc = "done"
                /\ call[c].result.kind = "throw"
                /\ call[c].admittedAt # <<>>
                /\ now - Last(call[c].admittedAt) < 1000) =>
                  Last(call[c].admittedAt) \in Range(requestTimestamps)
       /\ _client.constructed => (_client' = _client /\ _client.apiKey = env)
      ]_vars
\* A call admitted after an older timestamp had been pruned failed with a
\* 404, and its timestamp is still the newest of the window.
C17_Witness ==
    \E c \in Calls :
        /\ call[c].pc = "done"
        /\ call[c].result.kind = "throw"
        /\ call[c].received # <<>>
        /\ Last(call[c].received).status = 404
        /\ requestTimestamps # <<>>
        /\ Last(requestTimestamps) = Last(call[c].admittedAt)
        /\ Len(admitted) > Len(requestTimestamps)

\* The step is the invocation of a tool on call slot c.
Invoked(c) == call[c].pc = "idle" /\ call'[c].pc # "idle"

\* C18: at most one client is ever made; a client, once stored, stays the
\* stored one; an invocation that finds a client stored enters admission on
\* that client's window as it stands (whatever the tool); an invocation
\* that finds none and no credential stores none and ends with the
\* configuration error, and one that finds none and a credential stores
\* the first client, with that credential and an empty window.
C18_OneSharedClient ==
    [][/\ _client.instance <= 1 /\ _client'.instance <= 1
       /\ _client.constructed <=> _client.instance = 1
       /\ _client.constructed => _client' = _client
       /\ \A c \in Calls :
            Invoked(c) =>
              /\ call'[c].tool \in Tools
              /\ _client.constructed =>
                    /\ Checks(c)
                    /\ requestTimestamps' \in
                          {Younger(requestTimestamps, now),
                           Append(Younger(requestTimestamps, now), now)}
              /\ (~_client.constructed /\ (env = Undefined \/ env = "")) =>
                    /\ _client' = NoClient
                    /\ ~Checks(c)
                    /\ call'[c].pc = "done"
                    /\ call'[c].result.kind = "throw"
                    /\ call'[c].result.error.message = ConfigMessage
              /\ (~_client.constructed /\ env # Undefined /\ env # "") =>
                    /\ _client'.constructed
                    /\ _client'.instance = 1
                    /\ _client'.apiKey = env
                    /\ requestTimestamps' = <<now>>
      ]_vars
\* The first fetch of a notion_delete_block invocation is held back by three
\* timestamps that earlier invocations left in the one client's window.
C18_Witness ==
    \E c \in Calls :
        /\ _client.instance = 1
        /\ call[c].tool = "notion_delete_block"
        /\ call[c].pc = "throttleWait"
        /\ call[c].checkedAt = <<now>>
        /\ Len(requestTimestamps) = 3

\* C19: every fetch of notion_update_page has the key archived in its body,
\* with the value given, when the archived argument was given, be it true
\* or false, and has no such key when the argument was left out.
C19_ArchivedFalseIsSent ==
    \A c \in Calls :
        LET cr == call[c]
        IN  (cr.tool = "notion_update_page") =>
              \A i \in DOMAIN cr.sent :
                  LET body == cr.sent[i].body[1]
                  IN  /\ cr.sent[i].body # None
                      /\ (cr.args.archived # None) =>
                            /\ "archived" \in DOMAIN body
                            /\ body.archived = cr.args.archived[1]
                      /\ (cr.args.archived = None) =>
                            "archived" \notin DOMAIN body
\* notion_update_page was called with properties and archived = false, and
\* the body of its PATCH has archived: false next to the properties.
C19_Witness ==
    \E c \in Calls :
        /\ call[c].tool = "notion_update_page"
        /\ call[c].args.archived = Some(FALSE)
        /\ call[c].args.properties # None
        /\ call[c].sent # <<>>
        /\ DOMAIN call[c].sent[1].body[1] = {"properties", "archived"}
        /\ call[c].sent[1].body[1].archived = FALSE

\* C20: under any interleaving of concurrent calls the retained timestamps
\* are in non-decreasing order, so the first of them is the oldest (checked
\* under SpecConc, whose clock never goes back).
C20_WindowSorted ==
    \A i, j \in DOMAIN requestTimestamps :
        i <= j => requestTimestamps[i] <= requestTimestamps[j]
\* The window holds timestamps of different ages, and a suspended call's
\* timer is due 1050 ms after the first of them.
C20_Witness ==
    /\ Len(requestTimestamps) >= 3
    /\ requestTimestamps[1] < Last(requestTimestamps)
    /\ \E c \in Calls :
          /\ call[c].pc = "throttleWait"
          /\ call[c].wakeAt = requestTimestamps[1] + 1050

====
